---------------------------- MODULE Spec2Model ----------------------------
(***************************************************************************)
(* The investigation-history and discovery store of incidentfox_mcp        *)
(* (tools/history.py): six SQLite tables behind a dozen tool handlers.     *)
(* Every handler opens a connection, runs its statements, commits and      *)
(* closes; a handler that raises before its commit leaves the tables as    *)
(* they were.                                                              *)
(***************************************************************************)
EXTENDS Integers, Sequences, FiniteSets, TLC

(***************************************************************************)
(* Bounds of the model.                                                    *)
(***************************************************************************)
\* the clock runs over the ticks 0..MaxTime
MaxTime == 1
\* record_discovered_dependency calls in a behaviour
MaxDependencyCalls == 3
\* ticks per second; stands for the 1000000 microseconds of a second
MicrosPerSecond == 2
\* record_pattern calls in a behaviour
MaxPatternCalls == 3
\* suggest_known_issue calls in a behaviour
MaxIssueCalls == 3
\* record_pattern, record_discovered_dependency and suggest_known_issue
\* calls in a behaviour where the upserts are called next to each other
MaxUpsertCalls == 3
\* upsert calls in a behaviour of the writer processes, over both
MaxWriterCalls == 3

(***************************************************************************)
(* Values.                                                                 *)
(***************************************************************************)
\* Python None / SQL NULL in a text column
None == "None"
\* SQL NULL in a timestamp column (timestamps are modelled as sequences)
NoTime == << >>

\* the values str(uuid.uuid4())[:8] can take for an investigation
InvIds == {"inv-1", "inv-2"}
\* the values str(uuid.uuid4())[:8] can take for a finding
FindingIds == {"fnd-1", "fnd-2"}

ServiceArgs == {"payment-api"}
SummaryArgs == {"sum-1"}
NewSummaryArgs == {None, "", "sum-2"}
SeverityArgs == {"unknown"}
TagsArgs == {None}
\* (root_cause, resolution) pairs passed to complete_investigation
CompletionArgs == {<< "rc-1", "res-1" >>, << "rc-2", "res-2" >>}
FindingTypeArgs == {"log_error"}
TitleArgs == {"connection refused"}
DataArgs == {None}

\* the values str(uuid.uuid4())[:8] can take for a discovered service
ServiceIds == {"svc-1", "svc-2"}
\* the values str(uuid.uuid4())[:8] can take for a discovered dependency
DependencyIds == {"dep-1", "dep-2"}

ServiceNames == {"svc-a", "svc-b"}
NamespaceArgs == {None, "", "ns1", "ns2"}
DeploymentsArgs == {None, "deps-1", "deps-2"}
DescriptionArgs == {None, "", "d", "e"}
TeamArgs == {None, "team-1", "team-2"}
SourceToolArgs == {"list_pods"}
\* the calls of record_discovered_service, as (name, namespace, deployments,
\* description, team): for one name every namespace with every description
\* and every deployments with every team, and two calls for a second name
ServiceCallArgs ==
    ({"svc-a"} \X NamespaceArgs \X {None} \X DescriptionArgs \X {None})
    \cup ({"svc-a"} \X {None} \X DeploymentsArgs \X {None} \X TeamArgs)
    \cup {<< "svc-b", None, None, None, None >>,
          << "svc-b", "ns1", "deps-1", "d", "team-1" >>}

\* ordered pairs (from_service, to_service)
DependencyPairs == {<< "a", "b" >>, << "b", "a" >>}
EvidenceArgs == {None, "", "ev-1", "ev-2"}
\* confidence in tenths: 0.0, 0.5 (the default) and 1.2
ConfidenceArgs == {0, 5, 12}

\* the values str(uuid.uuid4())[:8] can take for a known pattern
PatternIds == {"pat-1", "pat-2"}
PatternArgs == {"oom-1", "oom-2"}
\* (cause, solution) pairs passed to record_pattern and suggest_known_issue
CauseSolutionArgs == {<< "cause-1", "fix-1" >>, << "cause-2", "fix-2" >>}
ServicesArgs == {None, "[\"payment-api\"]"}
\* the values str(uuid.uuid4())[:8] can take for a suggested known issue
IssueIds == {"iss-1", "iss-2"}
\* the investigation_id argument of suggest_known_issue
InvestigationIdArgs == {None, "", "inv-1", "inv-2"}

\* An id-list argument of mark_discoveries_synced is a string or None: it is
\* modelled by what the handler can tell apart, its kind and, for the text
\* of a JSON array of strings, the elements of the array.
NoList == [text |-> "none", ids |-> << >>]
\* the empty string
EmptyText == [text |-> "empty", ids |-> << >>]
\* a text json.loads rejects, such as svc-1 without brackets and quotes
Malformed == [text |-> "malformed", ids |-> << >>]
JsonArray(ids) == [text |-> "array", ids |-> ids]
\* the (service_ids, dependency_ids, known_issue_ids) of the calls: for every
\* set of rows the lists that name exactly its ids, and calls with absent,
\* empty, malformed, repeated and unknown ids
MarkCallArgs ==
    ({JsonArray(<< >>), JsonArray(<< "svc-1" >>), JsonArray(<< "svc-2" >>),
      JsonArray(<< "svc-2", "svc-1" >>)}
        \X {NoList, JsonArray(<< "dep-1" >>)}
        \X {JsonArray(<< >>), JsonArray(<< "iss-1" >>)})
    \cup {<< NoList, NoList, NoList >>,
          << EmptyText, NoList, NoList >>,
          << Malformed, NoList, NoList >>,
          << JsonArray(<< "svc-1" >>), JsonArray(<< "dep-1" >>), Malformed >>,
          << JsonArray(<< "svc-1", "svc-1" >>), NoList, NoList >>,
          << JsonArray(<< "svc-9" >>), JsonArray(<< "dep-1", "dep-1" >>),
             NoList >>}
\* the calls of record_discovered_service made next to the other discovery
\* calls, as (name, namespace, deployments, description, team)
DiscoveryServiceArgs ==
    {<< "svc-a", "ns1", None, "d", None >>,
     << "svc-b", None, None, None, None >>}

\* the investigations that are searched: their services, summaries, tags and
\* (root_cause, resolution) pairs
SearchedServices == {"payment-api", "auth"}
SearchedSummaries == {"DB down"}
SearchedTags == {None, "DB"}
SearchedCompletions == {<< "pool db", "restart" >>}
\* the arguments of search_investigations and find_similar_investigations
QueryArgs == {None, "db", "d_"}
ErrorMessageArgs == {None, "", "DB", "pool db", "restart"}
DaysAgoArgs == {0, 1}
LimitArgs == {1, 5}
\* a day in seconds: stands for 86400
SecondsPerDay == 1
\* the calls of search_investigations, as (query, service, days_ago, limit):
\* without a service every query with every days_ago and limit, and the
\* service filters with and without a query
SearchCallArgs ==
    (QueryArgs \X {None} \X DaysAgoArgs \X LimitArgs)
    \cup ({None, "db"} \X {"", "payment-api"} \X {1} \X {5})
\* the calls of find_similar_investigations, as (error_message, service,
\* limit): without a service every message with every limit, and the service
\* filters with and without a message
FindSimilarCallArgs ==
    (ErrorMessageArgs \X {None} \X LimitArgs)
    \cup ({None, "DB"} \X {"", "payment-api"} \X {5})

\* Python truthiness of an optional string: None and "" are falsy
Truthy(s) == s # None /\ s # ""

(***************************************************************************)
(* Timestamps.  datetime.utcnow().isoformat() + "Z" prints the seconds in  *)
(* a fixed width and appends ".ffffff" only when the microsecond is not 0. *)
(* A timestamp string is modelled as the sequence of its parts: the        *)
(* fixed-width seconds prefix (one symbol, ordered as the seconds are),    *)
(* then either "Z", or ".", the fixed-width microseconds and "Z".          *)
(* SQLite compares TEXT bytewise, and "." (46) sorts before "Z" (90).      *)
(***************************************************************************)
CharDot == 46
CharZ == 90

IsoFormat(t) ==
    IF t % MicrosPerSecond = 0
    THEN << t \div MicrosPerSecond, CharZ >>
    ELSE << t \div MicrosPerSecond, CharDot, t % MicrosPerSecond, CharZ >>

\* the instant a timestamp string denotes
ParseIso(s) ==
    IF Len(s) = 2 THEN s[1] * MicrosPerSecond
    ELSE s[1] * MicrosPerSecond + s[3]

\* bytewise (memcmp) order of two strings: BINARY collation of SQLite
TextLess(a, b) ==
    \E i \in 1..(Len(a) + 1) :
        /\ \A j \in 1..(i - 1) : j <= Len(b) /\ a[j] = b[j]
        /\ \/ i = Len(a) + 1 /\ Len(b) >= i
           \/ i <= Len(a) /\ i <= Len(b) /\ a[i] < b[i]

TextLeq(a, b) == a = b \/ TextLess(a, b)

(***************************************************************************)
(* Text.  The strings that are searched or searched for, as the sequences  *)
(* of their characters.                                                    *)
(***************************************************************************)
Chars(s) ==
    CASE s = "" -> << >>
      [] s = "DB down" -> << "D", "B", " ", "d", "o", "w", "n" >>
      [] s = "DB" -> << "D", "B" >>
      [] s = "pool db" -> << "p", "o", "o", "l", " ", "d", "b" >>
      [] s = "restart" -> << "r", "e", "s", "t", "a", "r", "t" >>
      [] s = "db" -> << "d", "b" >>
      [] s = "d_" -> << "d", "_" >>

\* str.lower() of one character; the same folding as LIKE applies to ASCII
LowerChar(c) ==
    CASE c = "D" -> "d"
      [] c = "B" -> "b"
      [] OTHER -> c

\* str.lower()
Lower(t) == [k \in 1..Len(t) |-> LowerChar(t[k])]

\* Python `needle in hay` on strings
Occurs(needle, hay) ==
    \E k \in 0..(Len(hay) - Len(needle)) :
        SubSeq(hay, k + 1, k + Len(needle)) = needle

RECURSIVE Like(_, _)
\* SQLite `text LIKE pattern`: % matches any run of characters, _ any one
\* character, every other character itself without regard to ASCII case
Like(pattern, text) ==
    IF pattern = << >> THEN text = << >>
    ELSE IF Head(pattern) = "%"
    THEN \E k \in 0..Len(text) :
            Like(Tail(pattern), SubSeq(text, k + 1, Len(text)))
    ELSE /\ text # << >>
         /\ \/ Head(pattern) = "_"
            \/ LowerChar(Head(pattern)) = LowerChar(Head(text))
         /\ Like(Tail(pattern), Tail(text))

RECURSIVE Split(_)
\* str.split(","): the pieces between the commas, empty pieces included
Split(t) ==
    IF \A k \in 1..Len(t) : t[k] # "," THEN << t >>
    ELSE LET k == CHOOSE j \in 1..Len(t) :
                      t[j] = "," /\ \A i \in 1..(j - 1) : t[i] # ","
         IN  << SubSeq(t, 1, k - 1) >> \o Split(SubSeq(t, k + 1, Len(t)))

(***************************************************************************)
(* State.                                                                  *)
(***************************************************************************)
VARIABLES
    now,              \* the UTC clock, in ticks
    investigations,   \* table investigations: id -> row
    findings,         \* table findings: id -> row
    ret,              \* the last tool call: its name, its arguments, whether
                      \* it returned ("ok", or "error" for an error payload)
                      \* or raised ("raise"), and the fields of its payload
    fresh,            \* history: ids returned by start_investigation and
                      \* not named in a later add_finding or
                      \* complete_investigation call
    addOk,            \* history: add_finding calls per investigation id
                      \* that returned without an error
    discovered_services,      \* table discovered_services: id -> row
    discovered_dependencies,  \* table discovered_dependencies: id -> row
    serviceCalls,     \* history, per service name: whether
                      \* record_discovered_service was called with it, the
                      \* first non-empty namespace and deployments and the
                      \* last non-empty description and team supplied
    dependencyCalls,  \* history, per ordered pair: the number of
                      \* record_discovered_dependency calls on it, the
                      \* greatest confidence and the non-empty evidence
                      \* strings supplied, in call order
    known_patterns,   \* table known_patterns: id -> row
    patternCalls,     \* history, per pattern text: the number of
                      \* record_pattern calls made with it and the cause
                      \* and solution of the last one
    suggested_known_issues,  \* table suggested_known_issues: id -> row;
                      \* the JSON array in investigation_ids is held as the
                      \* sequence of its elements
    issueCalls,       \* history, per pattern text: the number of
                      \* suggest_known_issue calls made with it, the
                      \* non-empty investigation ids supplied and the
                      \* cause, solution and services of the last call
    agent_runs,       \* table agent_runs of the config service: id -> row,
                      \* with started_at in hours on the clock
    writers,          \* per writer process: where it stands in the upsert
                      \* it is executing (before its SELECT, between the
                      \* SELECT and the write, between the write and the
                      \* commit, returned) and what it read and was given
    lock              \* the writer holding the write lock of the database
                      \* file, or None

lifecycleVars == << investigations, findings, fresh, addOk >>

serviceVars == << discovered_services, serviceCalls >>

dependencyVars == << discovered_dependencies, dependencyCalls >>

patternVars == << known_patterns, patternCalls >>

issueVars == << suggested_known_issues, issueCalls >>

recorderVars == << patternVars, issueVars >>

writerVars == << writers, lock >>

\* what the handlers of this store never touch when called one at a time
outsideVars == << agent_runs, writerVars >>

vars == << now, ret, lifecycleVars, serviceVars, dependencyVars,
           recorderVars, outsideVars >>

tables == << investigations, findings, discovered_services,
             discovered_dependencies, known_patterns,
             suggested_known_issues >>

\* the processes that write to the store at the same time
WriterIds == {"w1", "w2"}

\* the store right after _init_db() created the tables, no call made yet
InitStore ==
    /\ now = 0
    /\ investigations = << >>
    /\ findings = << >>
    /\ ret = [op |-> "none", kind |-> "none"]
    /\ fresh = {}
    /\ addOk = [i \in InvIds |-> 0]
    /\ discovered_services = << >>
    /\ discovered_dependencies = << >>
    /\ serviceCalls =
          [n \in ServiceNames |->
              [ called |-> FALSE, namespace |-> None, deployments |-> None,
                description |-> None, team |-> None ]]
    /\ dependencyCalls =
          [p \in DependencyPairs |->
              [ calls |-> 0, confidence |-> 0, evidence |-> << >> ]]
    /\ known_patterns = << >>
    /\ patternCalls =
          [p \in PatternArgs |->
              [ calls |-> 0, cause |-> None, solution |-> None ]]
    /\ suggested_known_issues = << >>
    /\ issueCalls =
          [p \in PatternArgs |->
              [ calls |-> 0, investigation_ids |-> {}, cause |-> None,
                solution |-> None, services |-> None ]]
    /\ writers = [w \in WriterIds |-> [pc |-> "idle", calls |-> 0]]
    /\ lock = None

Init ==
    /\ InitStore
    /\ agent_runs = << >>

\* the wall clock advances between and during calls
Tick ==
    /\ now < MaxTime
    /\ now' = now + 1
    /\ UNCHANGED << outsideVars, ret, lifecycleVars, serviceVars,
                    dependencyVars, recorderVars >>

\* an exception that reaches the caller: nothing was committed
Raised(op, args) == [op |-> op, args |-> args, kind |-> "raise"]

\* json.dumps({"error": f"Investigation {investigation_id} not found"})
NotFound(op, args) == [op |-> op, args |-> args, kind |-> "error"]

(***************************************************************************)
(* start_investigation                                                     *)
(***************************************************************************)
NewInvestigation(started, service, summary, severity, tags) ==
    [ started_at |-> started, ended_at |-> NoTime, service |-> service,
      summary |-> summary, root_cause |-> None, resolution |-> None,
      severity |-> severity, tags |-> tags, status |-> "in_progress" ]

\* id is the value of str(uuid.uuid4())[:8]
StartInvestigation(id, service, summary, severity, tags) ==
    LET args == [ service |-> service, summary |-> summary,
                  severity |-> severity, tags |-> tags ]
    IN  /\ IF id \in DOMAIN investigations
           THEN \* PRIMARY KEY violation: sqlite3.IntegrityError
                /\ ret' = Raised("start_investigation", args)
                /\ UNCHANGED << investigations, fresh >>
           ELSE /\ investigations' = investigations @@
                       (id :> NewInvestigation(IsoFormat(now), service,
                                               summary, severity, tags))
                /\ ret' = [ op |-> "start_investigation", args |-> args,
                            kind |-> "ok",
                            investigation_id |-> id,
                            started_at |-> IsoFormat(now),
                            service |-> service, status |-> "in_progress" ]
                /\ fresh' = fresh \cup {id}
        /\ UNCHANGED << now, findings, addOk >>

(***************************************************************************)
(* add_finding                                                             *)
(***************************************************************************)
\* the existence check left out
InvestigationExistsAlways(id) == TRUE

\* SELECT id FROM investigations WHERE id = ?
InvestigationExists(id) == id \in DOMAIN investigations

\* INSERT OR REPLACE in place of INSERT: a stored row with the id gives way
PrimaryKeyViolatedNever(table, id) == FALSE

\* id TEXT PRIMARY KEY: the INSERT fails when a stored row has the id
PrimaryKeyViolated(table, id) == id \in DOMAIN table

\* finding_id is the value of str(uuid.uuid4())[:8]
AddFinding(investigation_id, finding_id, finding_type, title, data) ==
    LET args == [ investigation_id |-> investigation_id,
                  finding_type |-> finding_type, title |-> title,
                  data |-> data ]
    IN  /\ IF ~ InvestigationExists(investigation_id)
           THEN /\ ret' = NotFound("add_finding", args)
                /\ UNCHANGED << findings, addOk >>
           ELSE IF PrimaryKeyViolated(findings, finding_id)
           THEN \* sqlite3.IntegrityError
                /\ ret' = Raised("add_finding", args)
                /\ UNCHANGED << findings, addOk >>
           ELSE /\ findings' =
                       (finding_id :>
                           [ investigation_id |-> investigation_id,
                             timestamp |-> IsoFormat(now),
                             type |-> finding_type, title |-> title,
                             data |-> data ]) @@ findings
                /\ ret' = [ op |-> "add_finding", args |-> args,
                            kind |-> "ok",
                            finding_id |-> finding_id,
                            investigation_id |-> investigation_id,
                            type |-> finding_type, title |-> title,
                            timestamp |-> IsoFormat(now) ]
                /\ addOk' = [addOk EXCEPT ![investigation_id] = @ + 1]
        /\ fresh' = fresh \ {investigation_id}
        /\ UNCHANGED << now, investigations >>

(***************************************************************************)
(* complete_investigation                                                  *)
(***************************************************************************)
\* the UPDATE without its WHERE clause
WhereIdDropped(rowId, id) == TRUE

\* the WHERE id = ? of the UPDATE
WhereId(rowId, id) == rowId = id

\* the SET clause always assigning summary, supplied or not
CompletedRowSummaryAlways(row, ended, root_cause, resolution, summary) ==
    [row EXCEPT !.ended_at = ended,
                !.root_cause = root_cause,
                !.resolution = resolution,
                !.summary = summary,
                !.status = "completed"]

\* the SET clause filling root_cause and resolution only while they are NULL
CompletedRowFirstWins(row, ended, root_cause, resolution, summary) ==
    [row EXCEPT !.ended_at = ended,
                !.root_cause = IF @ = None THEN root_cause ELSE @,
                !.resolution = IF @ = None THEN resolution ELSE @,
                !.summary = IF Truthy(summary) THEN summary ELSE @,
                !.status = "completed"]

\* the SET clause without status = 'completed'
CompletedRowStatusKept(row, ended, root_cause, resolution, summary) ==
    [row EXCEPT !.ended_at = ended,
                !.root_cause = root_cause,
                !.resolution = resolution,
                !.summary = IF Truthy(summary) THEN summary ELSE @]

\* the SET clause of the UPDATE: summary is assigned only `if summary:`
CompletedRow(row, ended, root_cause, resolution, summary) ==
    [row EXCEPT !.ended_at = ended,
                !.root_cause = root_cause,
                !.resolution = resolution,
                !.summary = IF Truthy(summary) THEN summary ELSE @,
                !.status = "completed"]

CompleteInvestigation(investigation_id, root_cause, resolution, summary) ==
    LET args == [ investigation_id |-> investigation_id,
                  root_cause |-> root_cause, resolution |-> resolution,
                  summary |-> summary ]
        matched == {i \in DOMAIN investigations : WhereId(i, investigation_id)}
    IN  /\ IF matched = {}
           THEN \* cursor.rowcount == 0: closed without commit
                /\ ret' = NotFound("complete_investigation", args)
                /\ UNCHANGED investigations
           ELSE /\ investigations' =
                       [i \in DOMAIN investigations |->
                           IF i \in matched
                           THEN CompletedRow(investigations[i], IsoFormat(now),
                                             root_cause, resolution, summary)
                           ELSE investigations[i]]
                /\ ret' = [ op |-> "complete_investigation", args |-> args,
                            kind |-> "ok",
                            investigation_id |-> investigation_id,
                            status |-> "completed",
                            root_cause |-> root_cause,
                            resolution |-> resolution,
                            ended_at |-> IsoFormat(now) ]
        /\ fresh' = fresh \ {investigation_id}
        /\ UNCHANGED << now, findings, addOk >>

(***************************************************************************)
(* get_investigation                                                       *)
(***************************************************************************)
\* the SELECT without its WHERE clause
FindingsOfAll(investigation_id) == DOMAIN findings

\* SELECT * FROM findings WHERE investigation_id = ?
FindingsOf(investigation_id) ==
    {f \in DOMAIN findings : findings[f].investigation_id = investigation_id}

\* dict(r) of a findings row
FindingRecord(f) ==
    [ id |-> f, investigation_id |-> findings[f].investigation_id,
      timestamp |-> findings[f].timestamp, type |-> findings[f].type,
      title |-> findings[f].title, data |-> findings[f].data ]

\* ORDER BY timestamp: every arrangement of the rows that ascends in the
\* TEXT order of the column (rows with equal timestamps come in any order)
OrderByTimestamp(S) ==
    { s \in [1..Cardinality(S) -> S] :
        /\ \A i, j \in 1..Cardinality(S) : i # j => s[i] # s[j]
        /\ \A i, j \in 1..Cardinality(S) :
              i < j => TextLeq(findings[s[i]].timestamp,
                               findings[s[j]].timestamp) }

GetInvestigation(investigation_id) ==
    LET args == [investigation_id |-> investigation_id]
    IN  /\ IF ~ InvestigationExists(investigation_id)
           THEN ret' = NotFound("get_investigation", args)
           ELSE \E order \in OrderByTimestamp(FindingsOf(investigation_id)) :
                  ret' = [ op |-> "get_investigation", args |-> args,
                           kind |-> "ok",
                           investigation |-> investigations[investigation_id],
                           findings |-> [k \in 1..Len(order) |->
                                            FindingRecord(order[k])],
                           finding_count |-> Len(order) ]
        /\ UNCHANGED << now, investigations, findings, fresh, addOk >>

(***************************************************************************)
(* The investigation lifecycle.                                            *)
(***************************************************************************)
StartStep ==
    /\ UNCHANGED << outsideVars, serviceVars, dependencyVars, recorderVars >>
    /\ \E id \in InvIds, service \in ServiceArgs, summary \in SummaryArgs,
       severity \in SeverityArgs, tags \in TagsArgs :
           StartInvestigation(id, service, summary, severity, tags)

AddFindingStep ==
    /\ UNCHANGED << outsideVars, serviceVars, dependencyVars, recorderVars >>
    /\ \E id \in InvIds, f \in FindingIds, t \in FindingTypeArgs,
       title \in TitleArgs, data \in DataArgs :
        AddFinding(id, f, t, title, data)

CompleteStep ==
    /\ UNCHANGED << outsideVars, serviceVars, dependencyVars, recorderVars >>
    /\ \E id \in InvIds, c \in CompletionArgs, summary \in NewSummaryArgs :
        CompleteInvestigation(id, c[1], c[2], summary)

GetStep ==
    /\ UNCHANGED << outsideVars, serviceVars, dependencyVars, recorderVars >>
    /\ \E id \in InvIds : GetInvestigation(id)

Next ==
    \/ Tick
    \/ StartStep
    \/ AddFindingStep
    \/ CompleteStep
    \/ GetStep

Spec == Init /\ [][Next]_vars

(***************************************************************************)
(* record_discovered_service                                               *)
(***************************************************************************)
\* SELECT id, namespace, deployments FROM discovered_services WHERE name = ?
ServicesNamed(name) ==
    {i \in DOMAIN discovered_services : discovered_services[i].name = name}

\* the SET clause also resetting synced_at
MergedServiceUnsynced(row, fetched, namespace, deployments, description, team) ==
    [row EXCEPT
        !.namespace = IF Truthy(namespace) /\ ~ Truthy(fetched.namespace)
                      THEN namespace ELSE @,
        !.deployments = IF Truthy(deployments) /\ ~ Truthy(fetched.deployments)
                        THEN deployments ELSE @,
        !.description = IF Truthy(description) THEN description ELSE @,
        !.team = IF Truthy(team) THEN team ELSE @,
        !.synced_at = NoTime]

\* the SET clause built from `updates`: namespace and deployments are
\* assigned when supplied and empty in the row that the SELECT fetched,
\* description and team whenever supplied
MergedService(row, fetched, namespace, deployments, description, team) ==
    [row EXCEPT
        !.namespace = IF Truthy(namespace) /\ ~ Truthy(fetched.namespace)
                      THEN namespace ELSE @,
        !.deployments = IF Truthy(deployments) /\ ~ Truthy(fetched.deployments)
                        THEN deployments ELSE @,
        !.description = IF Truthy(description) THEN description ELSE @,
        !.team = IF Truthy(team) THEN team ELSE @]

\* what the calls with one name have supplied so far
ServiceSupplied(h, namespace, deployments, description, team) ==
    [ called |-> TRUE,
      namespace |-> IF Truthy(h.namespace) THEN h.namespace
                    ELSE IF Truthy(namespace) THEN namespace ELSE None,
      deployments |-> IF Truthy(h.deployments) THEN h.deployments
                      ELSE IF Truthy(deployments) THEN deployments ELSE None,
      description |-> IF Truthy(description) THEN description
                      ELSE h.description,
      team |-> IF Truthy(team) THEN team ELSE h.team ]

\* id is the value of str(uuid.uuid4())[:8], drawn when no row has the name
RecordDiscoveredService(id, name, namespace, deployments, description, team, source_tool) ==
    LET args == [name |-> name]
        existing == ServicesNamed(name)
    IN  /\ IF existing # {}
           THEN LET fetched == discovered_services[CHOOSE i \in existing : TRUE]
                IN  /\ discovered_services' =
                          [i \in DOMAIN discovered_services |->
                              IF discovered_services[i].name = name
                              THEN MergedService(discovered_services[i],
                                                 fetched, namespace,
                                                 deployments, description, team)
                              ELSE discovered_services[i]]
                    /\ ret' = [ op |-> "record_discovered_service",
                                args |-> args, kind |-> "ok",
                                status |-> "updated", service |-> name ]
           ELSE IF id \in DOMAIN discovered_services
           THEN \* PRIMARY KEY violation: sqlite3.IntegrityError
                /\ ret' = Raised("record_discovered_service", args)
                /\ UNCHANGED discovered_services
           ELSE /\ discovered_services' = discovered_services @@
                       (id :> [ name |-> name, namespace |-> namespace,
                                deployments |-> deployments,
                                description |-> description, team |-> team,
                                discovered_at |-> IsoFormat(now),
                                source_tool |-> source_tool,
                                synced_at |-> NoTime ])
                /\ ret' = [ op |-> "record_discovered_service",
                            args |-> args, kind |-> "ok",
                            status |-> "recorded", id |-> id,
                            service |-> name ]
        /\ serviceCalls' =
              [serviceCalls EXCEPT ![name] =
                  ServiceSupplied(@, namespace, deployments, description, team)]
        /\ UNCHANGED << outsideVars, now, lifecycleVars, dependencyVars,
                        recorderVars >>

RecordServiceStep ==
    \E id \in ServiceIds, a \in ServiceCallArgs,
       source_tool \in SourceToolArgs :
        RecordDiscoveredService(id, a[1], a[2], a[3], a[4], a[5], source_tool)

NextServices ==
    \/ Tick
    \/ RecordServiceStep

SpecServices == Init /\ [][NextServices]_vars

(***************************************************************************)
(* record_discovered_dependency                                            *)
(***************************************************************************)
Max(a, b) == IF a >= b THEN a ELSE b

\* SELECT id, confidence, evidence FROM discovered_dependencies
\* WHERE from_service = ? AND to_service = ?
DependenciesOn(from_service, to_service) ==
    {i \in DOMAIN discovered_dependencies :
        /\ discovered_dependencies[i].from_service = from_service
        /\ discovered_dependencies[i].to_service = to_service}

\* max(existing[1] or 0, confidence)
NewConfidence(old, confidence) == Max(IF old = 0 THEN 0 ELSE old, confidence)

\* new_evidence: f"{new_evidence}; {evidence}" when both are non-empty
NewEvidence(old, evidence) ==
    IF Truthy(evidence)
    THEN IF Truthy(old) THEN old \o "; " \o evidence ELSE evidence
    ELSE old

\* what the calls on one pair have supplied so far
DependencySupplied(h, evidence, confidence) ==
    [ calls |-> h.calls + 1,
      confidence |-> IF h.calls = 0 THEN confidence
                     ELSE Max(h.confidence, confidence),
      evidence |-> IF Truthy(evidence) THEN Append(h.evidence, evidence)
                   ELSE h.evidence ]

DependencyCallsMade ==
    LET pairs == << << "a", "b" >>, << "b", "a" >> >>
    IN  dependencyCalls[pairs[1]].calls + dependencyCalls[pairs[2]].calls

\* id is the value of str(uuid.uuid4())[:8], drawn when no row has the pair
RecordDiscoveredDependency(id, from_service, to_service, evidence, confidence) ==
    LET args == [from_service |-> from_service, to_service |-> to_service]
        existing == DependenciesOn(from_service, to_service)
    IN  /\ DependencyCallsMade < MaxDependencyCalls
        /\ IF existing # {}
           THEN LET e == CHOOSE i \in existing : TRUE
                    new_confidence ==
                        NewConfidence(discovered_dependencies[e].confidence,
                                      confidence)
                    new_evidence ==
                        NewEvidence(discovered_dependencies[e].evidence,
                                    evidence)
                IN  /\ discovered_dependencies' =
                          [discovered_dependencies EXCEPT
                              ![e].confidence = new_confidence,
                              ![e].evidence = new_evidence]
                    /\ ret' = [ op |-> "record_discovered_dependency",
                                args |-> args, kind |-> "ok",
                                status |-> "updated",
                                confidence |-> new_confidence ]
           ELSE IF id \in DOMAIN discovered_dependencies
           THEN \* PRIMARY KEY violation: sqlite3.IntegrityError
                /\ ret' = Raised("record_discovered_dependency", args)
                /\ UNCHANGED discovered_dependencies
           ELSE /\ discovered_dependencies' = discovered_dependencies @@
                       (id :> [ from_service |-> from_service,
                                to_service |-> to_service,
                                evidence |-> evidence,
                                confidence |-> confidence,
                                discovered_at |-> IsoFormat(now),
                                synced_at |-> NoTime ])
                /\ ret' = [ op |-> "record_discovered_dependency",
                            args |-> args, kind |-> "ok",
                            status |-> "recorded", id |-> id,
                            confidence |-> confidence ]
        /\ dependencyCalls' =
              [dependencyCalls EXCEPT ![<< from_service, to_service >>] =
                  DependencySupplied(@, evidence, confidence)]
        /\ UNCHANGED << outsideVars, now, lifecycleVars, serviceVars,
                        recorderVars >>

RecordDependencyStep ==
    \E id \in DependencyIds, p \in DependencyPairs, evidence \in EvidenceArgs,
       confidence \in ConfidenceArgs :
        RecordDiscoveredDependency(id, p[1], p[2], evidence, confidence)

NextDependencies ==
    \/ Tick
    \/ RecordDependencyStep

SpecDependencies == Init /\ [][NextDependencies]_vars

(***************************************************************************)
(* record_pattern                                                          *)
(***************************************************************************)
\* SELECT id, occurrence_count FROM known_patterns WHERE pattern = ?
PatternsWith(pattern) ==
    {i \in DOMAIN known_patterns : known_patterns[i].pattern = pattern}

\* the SET clause also assigning created_at
RepeatedPatternRecreated(row, seen, cause, solution) ==
    [row EXCEPT !.occurrence_count = @ + 1, !.last_seen = seen,
                !.cause = cause, !.solution = solution, !.created_at = seen]

\* SET occurrence_count = occurrence_count + 1, last_seen = ?, cause = ?,
\* solution = ?
RepeatedPattern(row, seen, cause, solution) ==
    [row EXCEPT !.occurrence_count = @ + 1, !.last_seen = seen,
                !.cause = cause, !.solution = solution]

PatternCallsMade ==
    LET patterns == << "oom-1", "oom-2" >>
    IN  patternCalls[patterns[1]].calls + patternCalls[patterns[2]].calls

\* id is the value of str(uuid.uuid4())[:8]
RecordPattern(id, pattern, cause, solution, services) ==
    LET args == [ pattern |-> pattern, cause |-> cause,
                  solution |-> solution, services |-> services ]
        existing == PatternsWith(pattern)
    IN  /\ PatternCallsMade < MaxPatternCalls
        /\ IF existing # {}
           THEN LET e == CHOOSE i \in existing : TRUE
                IN  /\ known_patterns' =
                          [known_patterns EXCEPT
                              ![e] = RepeatedPattern(@, IsoFormat(now),
                                                     cause, solution)]
                    /\ ret' = [ op |-> "record_pattern", args |-> args,
                                kind |-> "ok", pattern_id |-> e,
                                pattern |-> pattern, cause |-> cause,
                                solution |-> solution,
                                seen |-> known_patterns[e].occurrence_count
                                            + 1 ]
           ELSE IF id \in DOMAIN known_patterns
           THEN \* PRIMARY KEY violation: sqlite3.IntegrityError
                /\ ret' = Raised("record_pattern", args)
                /\ UNCHANGED known_patterns
           ELSE /\ known_patterns' = known_patterns @@
                       (id :> [ pattern |-> pattern, cause |-> cause,
                                solution |-> solution, services |-> services,
                                occurrence_count |-> 1,
                                last_seen |-> IsoFormat(now),
                                created_at |-> IsoFormat(now) ])
                /\ ret' = [ op |-> "record_pattern", args |-> args,
                            kind |-> "ok", pattern_id |-> id,
                            pattern |-> pattern, cause |-> cause,
                            solution |-> solution, seen |-> 1 ]
        /\ patternCalls' =
              [patternCalls EXCEPT ![pattern] =
                  [ calls |-> @.calls + 1, cause |-> cause,
                    solution |-> solution ]]
        /\ UNCHANGED << outsideVars, now, lifecycleVars, serviceVars,
                        dependencyVars, issueVars >>

RecordPatternStep ==
    \E id \in PatternIds, pattern \in PatternArgs, c \in CauseSolutionArgs,
       services \in ServicesArgs :
        RecordPattern(id, pattern, c[1], c[2], services)

NextPatterns ==
    \/ Tick
    \/ RecordPatternStep

SpecPatterns == Init /\ [][NextPatterns]_vars

(***************************************************************************)
(* suggest_known_issue                                                     *)
(***************************************************************************)
\* SELECT id, occurrences, investigation_ids FROM suggested_known_issues
\* WHERE pattern = ?
IssuesWith(pattern) ==
    {i \in DOMAIN suggested_known_issues :
        suggested_known_issues[i].pattern = pattern}

Elements(seq) == {seq[k] : k \in 1..Len(seq)}

\* if investigation_id and investigation_id not in inv_ids:
\*     inv_ids.append(investigation_id)
AppendedId(inv_ids, investigation_id) ==
    IF Truthy(investigation_id) /\ investigation_id \notin Elements(inv_ids)
    THEN Append(inv_ids, investigation_id)
    ELSE inv_ids

IssueCallsMade ==
    LET patterns == << "oom-1", "oom-2" >>
    IN  issueCalls[patterns[1]].calls + issueCalls[patterns[2]].calls

\* id is the value of str(uuid.uuid4())[:8], drawn when no row has the
\* pattern
SuggestKnownIssue(id, pattern, cause, solution, services, investigation_id) ==
    LET args == [ pattern |-> pattern, cause |-> cause,
                  solution |-> solution, services |-> services,
                  investigation_id |-> investigation_id ]
        existing == IssuesWith(pattern)
    IN  /\ IssueCallsMade < MaxIssueCalls
        /\ IF existing # {}
           THEN LET e == CHOOSE i \in existing : TRUE
                    occurrences == suggested_known_issues[e].occurrences + 1
                    inv_ids ==
                        AppendedId(suggested_known_issues[e].investigation_ids,
                                   investigation_id)
                IN  /\ suggested_known_issues' =
                          [suggested_known_issues EXCEPT
                              ![e].occurrences = occurrences,
                              ![e].investigation_ids = inv_ids,
                              ![e].cause = cause,
                              ![e].solution = solution,
                              ![e].services = services]
                    /\ ret' = [ op |-> "suggest_known_issue", args |-> args,
                                kind |-> "ok", status |-> "updated",
                                pattern |-> pattern,
                                occurrences |-> occurrences ]
           ELSE IF id \in DOMAIN suggested_known_issues
           THEN \* PRIMARY KEY violation: sqlite3.IntegrityError
                /\ ret' = Raised("suggest_known_issue", args)
                /\ UNCHANGED suggested_known_issues
           ELSE /\ suggested_known_issues' = suggested_known_issues @@
                       (id :> [ pattern |-> pattern, cause |-> cause,
                                solution |-> solution, services |-> services,
                                occurrences |-> 1,
                                investigation_ids |->
                                    IF Truthy(investigation_id)
                                    THEN << investigation_id >> ELSE << >>,
                                discovered_at |-> IsoFormat(now),
                                synced_at |-> NoTime ])
                /\ ret' = [ op |-> "suggest_known_issue", args |-> args,
                            kind |-> "ok", status |-> "recorded",
                            id |-> id, pattern |-> pattern ]
        /\ issueCalls' =
              [issueCalls EXCEPT ![pattern] =
                  [ calls |-> @.calls + 1,
                    investigation_ids |->
                        IF Truthy(investigation_id)
                        THEN @.investigation_ids \cup {investigation_id}
                        ELSE @.investigation_ids,
                    cause |-> cause, solution |-> solution,
                    services |-> services ]]
        /\ UNCHANGED << outsideVars, now, lifecycleVars, serviceVars,
                        dependencyVars, patternVars >>

SuggestStep ==
    \E id \in IssueIds, pattern \in PatternArgs, c \in CauseSolutionArgs,
       services \in ServicesArgs, investigation_id \in InvestigationIdArgs :
        SuggestKnownIssue(id, pattern, c[1], c[2], services, investigation_id)

NextIssues ==
    \/ Tick
    \/ SuggestStep

SpecIssues == Init /\ [][NextIssues]_vars

(***************************************************************************)
(* get_pending_discoveries                                                 *)
(***************************************************************************)
\* the SELECT without its WHERE clause
PendingAll(table) == DOMAIN table

\* SELECT * FROM <table> WHERE synced_at IS NULL: the ids of the rows
Pending(table) == {i \in DOMAIN table : table[i].synced_at = NoTime}

\* `if service_ids:` -- None and the empty string skip the table
Supplied(list) == list.text \notin {"none", "empty"}

\* json.loads(list) raises json.JSONDecodeError
LoadsRaises(list) == Supplied(list) /\ list.text = "malformed"

\* ids = json.loads(list), or no ids when the table is skipped
Loaded(list) == IF Supplied(list) THEN list.ids ELSE << >>

\* history: the last call was a mark_discoveries_synced that returned, it
\* came right after a get_pending_discoveries with a non-empty result, and
\* its three lists named every id of that result
SyncedAllPending ==
    /\ ret.op = "mark_discoveries_synced"
    /\ ret.kind = "ok"
    /\ ret.previous.op = "get_pending_discoveries"
    /\ ret.previous.total_pending > 0
    /\ ret.previous.services \subseteq Elements(Loaded(ret.args.service_ids))
    /\ ret.previous.dependencies
          \subseteq Elements(Loaded(ret.args.dependency_ids))
    /\ ret.previous.known_issues
          \subseteq Elements(Loaded(ret.args.known_issue_ids))

\* {"count": len(rows) + 1, "items": rows}
GroupMiscounted(rows) == [ count |-> Cardinality(rows) + 1, ids |-> rows ]

\* {"count": len(rows), "items": rows}: one group of the payload
Group(rows) == [ count |-> Cardinality(rows), ids |-> rows ]

\* the payload holds the rows of each table; the model keeps their ids and
\* leaves out the order in which the rows are listed
GetPendingDiscoveries ==
    LET services == Pending(discovered_services)
        dependencies == Pending(discovered_dependencies)
        known_issues == Pending(suggested_known_issues)
    IN  /\ ret' = [ op |-> "get_pending_discoveries", args |-> << >>,
                    kind |-> "ok", after_sync |-> SyncedAllPending,
                    total_pending |-> Cardinality(services)
                                        + Cardinality(dependencies)
                                        + Cardinality(known_issues),
                    services |-> Group(services),
                    dependencies |-> Group(dependencies),
                    known_issues |-> Group(known_issues) ]
        /\ UNCHANGED << outsideVars, now, lifecycleVars, serviceVars,
                        dependencyVars, recorderVars >>

(***************************************************************************)
(* mark_discoveries_synced                                                 *)
(***************************************************************************)
\* counts[...] += cursor.rowcount over the loop: one for every element of
\* ids that is the id of a row
RowCount(table, ids) ==
    Cardinality({k \in 1..Len(ids) : ids[k] \in DOMAIN table})

\* UPDATE <table> SET synced_at = ? WHERE id = ?, for each element of ids
Marked(table, ids, synced) ==
    [i \in DOMAIN table |->
        IF i \in Elements(ids) THEN [table[i] EXCEPT !.synced_at = synced]
        ELSE table[i]]

\* the updates made before the exception committed all the same
AbandonedCommitted(table, ids, synced) == Marked(table, ids, synced)

\* the exception leaves the handler before conn.commit(): the connection is
\* dropped with its transaction open and the updates of ids are rolled back
Abandoned(table, ids, synced) == table

\* what the call before this one was and, when it was
\* get_pending_discoveries, what it returned (history kept with the call)
PreviousCall ==
    IF ret.op = "get_pending_discoveries"
    THEN [ op |-> ret.op, total_pending |-> ret.total_pending,
           services |-> ret.services.ids,
           dependencies |-> ret.dependencies.ids,
           known_issues |-> ret.known_issues.ids ]
    ELSE [ op |-> ret.op, total_pending |-> 0, services |-> {},
           dependencies |-> {}, known_issues |-> {} ]

MarkDiscoveriesSynced(service_ids, dependency_ids, known_issue_ids) ==
    LET args == [ service_ids |-> service_ids,
                  dependency_ids |-> dependency_ids,
                  known_issue_ids |-> known_issue_ids ]
        synced == IsoFormat(now)
        counts ==
            [ services |-> RowCount(discovered_services, Loaded(service_ids)),
              dependencies |->
                  RowCount(discovered_dependencies, Loaded(dependency_ids)),
              known_issues |->
                  RowCount(suggested_known_issues, Loaded(known_issue_ids)) ]
    IN  /\ IF \/ LoadsRaises(service_ids)
              \/ LoadsRaises(dependency_ids)
              \/ LoadsRaises(known_issue_ids)
           THEN \* json.JSONDecodeError before conn.commit(): the updates
                \* already made by this call are rolled back
                /\ ret' = Raised("mark_discoveries_synced", args)
                /\ discovered_services' =
                       Abandoned(discovered_services, Loaded(service_ids),
                                 synced)
                /\ discovered_dependencies' =
                       Abandoned(discovered_dependencies,
                                 Loaded(dependency_ids), synced)
                /\ suggested_known_issues' =
                       Abandoned(suggested_known_issues,
                                 Loaded(known_issue_ids), synced)
           ELSE /\ discovered_services' =
                       Marked(discovered_services, Loaded(service_ids), synced)
                /\ discovered_dependencies' =
                       Marked(discovered_dependencies, Loaded(dependency_ids),
                              synced)
                /\ suggested_known_issues' =
                       Marked(suggested_known_issues, Loaded(known_issue_ids),
                              synced)
                /\ ret' = [ op |-> "mark_discoveries_synced", args |-> args,
                            kind |-> "ok", marked_synced |-> counts,
                            total |-> counts.services + counts.dependencies
                                        + counts.known_issues,
                            previous |-> PreviousCall ]
        /\ UNCHANGED << outsideVars, now, lifecycleVars, serviceCalls,
                        dependencyCalls, patternVars, issueCalls >>

(***************************************************************************)
(* The discovery recorder next to the catalog sync.                        *)
(***************************************************************************)
DiscoverServiceStep ==
    \E id \in ServiceIds, a \in DiscoveryServiceArgs,
       source_tool \in SourceToolArgs :
        RecordDiscoveredService(id, a[1], a[2], a[3], a[4], a[5], source_tool)

DiscoverDependencyStep ==
    RecordDiscoveredDependency("dep-1", "a", "b", "ev-1", 5)

DiscoverIssueStep ==
    SuggestKnownIssue("iss-1", "oom-1", "cause-1", "fix-1", None, "inv-1")

GetPendingStep == GetPendingDiscoveries

MarkSyncedStep ==
    \E a \in MarkCallArgs : MarkDiscoveriesSynced(a[1], a[2], a[3])

\* the calls are taken at one instant of the clock
NextDiscovery ==
    \/ DiscoverServiceStep
    \/ DiscoverDependencyStep
    \/ DiscoverIssueStep
    \/ GetPendingStep
    \/ MarkSyncedStep

SpecDiscovery == Init /\ [][NextDiscovery]_vars

(***************************************************************************)
(* search_investigations                                                   *)
(***************************************************************************)
\* column LIKE '%query%'; NULL LIKE ... is not true
ColumnLike(column, query) ==
    /\ column # None
    /\ Like(<< "%" >> \o Chars(query) \o << "%" >>, Chars(column))

\* (summary LIKE ? OR root_cause LIKE ? OR resolution LIKE ? OR tags LIKE ?)
QueryMatches(row, query) ==
    \/ ColumnLike(row.summary, query)
    \/ ColumnLike(row.root_cause, query)
    \/ ColumnLike(row.resolution, query)
    \/ ColumnLike(row.tags, query)

\* (datetime.utcnow() - timedelta(days=days_ago)).isoformat() + "Z"
Cutoff(days_ago) == IsoFormat(now - days_ago * SecondsPerDay * MicrosPerSecond)

\* the WHERE clause without started_at >= ?
SearchWhereAnyTime(row, query, service, days_ago) ==
    /\ Truthy(query) => QueryMatches(row, query)
    /\ Truthy(service) => row.service = service

\* the WHERE clause: the conditions joined with AND
SearchWhere(row, query, service, days_ago) ==
    /\ Truthy(query) => QueryMatches(row, query)
    /\ Truthy(service) => row.service = service
    /\ TextLeq(Cutoff(days_ago), row.started_at)

\* ORDER BY started_at DESC: every arrangement of the rows that descends in
\* the TEXT order of the column
OrderByStartedDesc(S) ==
    { s \in [1..Cardinality(S) -> S] :
        /\ \A i, j \in 1..Cardinality(S) : i # j => s[i] # s[j]
        /\ \A i, j \in 1..Cardinality(S) :
              i < j => TextLeq(investigations[s[j]].started_at,
                               investigations[s[i]].started_at) }

\* LIMIT n, and Python seq[:n], for n >= 0
FirstN(seq, n) == SubSeq(seq, 1, IF n < Len(seq) THEN n ELSE Len(seq))

\* the payload holds the rows; the model keeps their ids, in order
SearchInvestigations(query, service, days_ago, limit) ==
    LET args == [ query |-> query, service |-> service,
                  days_ago |-> days_ago, limit |-> limit ]
        matching == {i \in DOMAIN investigations :
                        SearchWhere(investigations[i], query, service,
                                    days_ago)}
    IN  /\ \E order \in OrderByStartedDesc(matching) :
              ret' = [ op |-> "search_investigations", args |-> args,
                       kind |-> "ok", called_at |-> now,
                       count |-> Len(FirstN(order, limit)),
                       investigations |-> FirstN(order, limit) ]
        /\ UNCHANGED << outsideVars, now, lifecycleVars, serviceVars,
                        dependencyVars, recorderVars >>

(***************************************************************************)
(* find_similar_investigations                                             *)
(***************************************************************************)
\* the WHERE clause without status = 'completed'
CandidateWhereAnyStatus(row, service) ==
    Truthy(service) => row.service = service

\* the WHERE clause: status = 'completed' [AND service = ?]
CandidateWhere(row, service) ==
    /\ row.status = "completed"
    /\ Truthy(service) => row.service = service

\* the score of one candidate against error_message
Score(row, error_message) ==
    LET error_lower == Lower(Chars(error_message))
    IN  (IF Truthy(row.root_cause)
            /\ Occurs(error_lower, Lower(Chars(row.root_cause)))
         THEN 10 ELSE 0)
        + (IF Truthy(row.summary)
              /\ Occurs(error_lower, Lower(Chars(row.summary)))
           THEN 5 ELSE 0)
        + (IF Truthy(row.tags)
              /\ \E k \in 1..Len(Split(Chars(row.tags))) :
                    Occurs(Split(Chars(row.tags))[k], error_lower)
           THEN 3 ELSE 0)

\* the elements of seq that satisfy Keep, in their order
RECURSIVE Filtered(_, _)
Filtered(seq, keep) ==
    IF seq = << >> THEN << >>
    ELSE IF keep[Head(seq)] THEN << Head(seq) >> \o Filtered(Tail(seq), keep)
    ELSE Filtered(Tail(seq), keep)

\* scored.sort(key=score, reverse=True): descending, stable
SortedByScore(seq, score) ==
    CHOOSE s \in [1..Len(seq) -> Elements(seq)] :
        /\ \A i, j \in 1..Len(seq) : i # j => s[i] # s[j]
        /\ \A i, j \in 1..Len(seq) :
              i < j =>
                 \/ score[s[i]] > score[s[j]]
                 \/ /\ score[s[i]] = score[s[j]]
                    /\ \E a, b \in 1..Len(seq) :
                          a < b /\ seq[a] = s[i] /\ seq[b] = s[j]

\* the payload holds the rows; the model keeps their ids, in order
FindSimilarInvestigations(error_message, service, limit) ==
    LET args == [ error_message |-> error_message, service |-> service,
                  limit |-> limit ]
        completed == {i \in DOMAIN investigations :
                         CandidateWhere(investigations[i], service)}
    IN  /\ \E order \in OrderByStartedDesc(completed) :
              LET candidates == FirstN(order, 100)
                  score == [i \in completed |->
                               IF Truthy(error_message)
                               THEN Score(investigations[i], error_message)
                               ELSE 0]
                  scored == Filtered(candidates,
                                     [i \in completed |-> score[i] > 0])
                  similar == IF Truthy(error_message)
                             THEN FirstN(SortedByScore(scored, score), limit)
                             ELSE FirstN(candidates, limit)
              IN  ret' = [ op |-> "find_similar_investigations",
                           args |-> args, kind |-> "ok",
                           similar_count |-> Len(similar),
                           similar_investigations |-> similar ]
        /\ UNCHANGED << outsideVars, now, lifecycleVars, serviceVars,
                        dependencyVars, recorderVars >>

(***************************************************************************)
(* The history search.                                                     *)
(***************************************************************************)
StartSearchedStep ==
    /\ UNCHANGED << outsideVars, serviceVars, dependencyVars, recorderVars >>
    /\ \E id \in InvIds, service \in SearchedServices,
          summary \in SearchedSummaries, tags \in SearchedTags :
           StartInvestigation(id, service, summary, "unknown", tags)

CompleteSearchedStep ==
    /\ UNCHANGED << outsideVars, serviceVars, dependencyVars, recorderVars >>
    /\ \E id \in InvIds, c \in SearchedCompletions :
           CompleteInvestigation(id, c[1], c[2], None)

SearchStep ==
    \E a \in SearchCallArgs : SearchInvestigations(a[1], a[2], a[3], a[4])

FindSimilarStep ==
    \E a \in FindSimilarCallArgs : FindSimilarInvestigations(a[1], a[2], a[3])

NextSearch ==
    \/ Tick
    \/ StartSearchedStep
    \/ CompleteSearchedStep
    \/ SearchStep
    \/ FindSimilarStep

SpecSearch == Init /\ [][NextSearch]_vars

(***************************************************************************)
(* Properties of the investigation lifecycle.                              *)
(***************************************************************************)
\* C1: get_investigation on an id that start_investigation returned, with
\* no add_finding or complete_investigation call on that id in between,
\* returns status in_progress, ended_at null and finding_count 0.
C1_FreshInvestigation ==
    (ret.op = "get_investigation" /\ ret.args.investigation_id \in fresh) =>
        /\ ret.kind = "ok"
        /\ ret.investigation.status = "in_progress"
        /\ ret.investigation.ended_at = NoTime
        /\ ret.finding_count = 0
        /\ ret.findings = << >>

\* a fresh investigation is read while the store holds a finding of another
\* investigation and a completed investigation
C1_Witness ==
    /\ ret.op = "get_investigation"
    /\ ret.args.investigation_id \in fresh
    /\ findings # << >>
    /\ \E i \in DOMAIN investigations : investigations[i].status = "completed"

\* C2: get_investigation returns the findings of an investigation in
\* non-decreasing order of their timestamps (the instants at which they were
\* added), and finding_count is the number of add_finding calls on that id
\* that returned without an error.
C2_FindingsInTimeOrder ==
    (ret.op = "get_investigation" /\ ret.kind = "ok") =>
        /\ \A i, j \in 1..Len(ret.findings) :
              i < j => ParseIso(ret.findings[i].timestamp)
                          <= ParseIso(ret.findings[j].timestamp)
        /\ ret.finding_count = addOk[ret.args.investigation_id]

\* C3: add_finding with an investigation_id that matches no investigation
\* returns an error payload and leaves every table as it was.
C3_AddFindingUnknownId ==
    [][(ret'.op = "add_finding"
          /\ ret'.args.investigation_id \notin DOMAIN investigations)
       => (ret'.kind = "error" /\ UNCHANGED tables)]_vars

\* add_finding has returned the error while both tables hold rows
C3_Witness ==
    /\ ret.op = "add_finding"
    /\ ret.kind = "error"
    /\ ret.args.investigation_id \notin DOMAIN investigations
    /\ investigations # << >>
    /\ findings # << >>

\* C4: complete_investigation with an investigation_id that matches no
\* investigation returns an error payload and changes no investigation row
\* (nor any other row).
C4_CompleteUnknownId ==
    [][(ret'.op = "complete_investigation"
          /\ ret'.args.investigation_id \notin DOMAIN investigations)
       => (ret'.kind = "error" /\ UNCHANGED tables)]_vars

\* complete_investigation has returned the error while an investigation in
\* progress is stored
C4_Witness ==
    /\ ret.op = "complete_investigation"
    /\ ret.kind = "error"
    /\ ret.args.investigation_id \notin DOMAIN investigations
    /\ \E i \in DOMAIN investigations :
          investigations[i].status = "in_progress"

\* C5: complete_investigation on a stored investigation, already completed
\* or not, succeeds and stores the root_cause and resolution of this call;
\* the status is completed.
C5_CompleteAgainOverwrites ==
    (ret.op = "complete_investigation"
        /\ ret.args.investigation_id \in DOMAIN investigations) =>
        LET row == investigations[ret.args.investigation_id]
        IN  /\ ret.kind = "ok"
            /\ row.root_cause = ret.args.root_cause
            /\ row.resolution = ret.args.resolution
            /\ row.status = "completed"

\* an investigation has been completed a second time: its summary was set
\* by an earlier complete_investigation call, and the last call, which gave
\* another root cause and no summary, has replaced rc-1 by rc-2
C5_Witness ==
    /\ ret.op = "complete_investigation"
    /\ ret.kind = "ok"
    /\ ret.args.summary = None
    /\ ret.args.root_cause = "rc-2"
    /\ investigations[ret.args.investigation_id].summary = "sum-2"
    /\ investigations[ret.args.investigation_id].root_cause = "rc-2"
    /\ \A i \in DOMAIN investigations :
          i # ret.args.investigation_id =>
              investigations[i].status = "in_progress"

\* C6: complete_investigation replaces the stored summary only when a new
\* summary is supplied, and then by the supplied one; when none is supplied
\* the investigation keeps the summary it had.
C6_SummaryKeptUnlessSupplied ==
    [][(ret'.op = "complete_investigation"
          /\ ret'.args.investigation_id \in DOMAIN investigations)
       => LET id == ret'.args.investigation_id
              s == ret'.args.summary
          IN  /\ s = None =>
                    investigations'[id].summary = investigations[id].summary
              /\ investigations'[id].summary # investigations[id].summary =>
                    (s # None /\ investigations'[id].summary = s)]_vars

\* an investigation whose summary an earlier complete_investigation call
\* replaced has been completed again without a summary and has kept it
C6_Witness ==
    /\ ret.op = "complete_investigation"
    /\ ret.kind = "ok"
    /\ ret.args.summary = None
    /\ investigations[ret.args.investigation_id].summary = "sum-2"
    /\ findings # << >>

\* C7: start_investigation always succeeds: it returns an id that no stored
\* investigation has, adds exactly one row, with status in_progress, and
\* changes no existing investigation.
C7_StartAlwaysSucceeds ==
    [][\A id \in InvIds, service \in ServiceArgs, summary \in SummaryArgs,
          severity \in SeverityArgs, tags \in TagsArgs :
          StartInvestigation(id, service, summary, severity, tags)
          => /\ ret'.kind = "ok"
             /\ ret'.investigation_id \notin DOMAIN investigations
             /\ DOMAIN investigations' =
                   DOMAIN investigations \cup {ret'.investigation_id}
             /\ investigations'[ret'.investigation_id].status = "in_progress"
             /\ \A i \in DOMAIN investigations :
                   investigations'[i] = investigations[i]]_vars

(***************************************************************************)
(* Properties of the discovery recorder.                                   *)
(***************************************************************************)
\* a stored column against what was supplied for it: the supplied non-empty
\* value when there is one, and an empty column otherwise
HoldsSupplied(stored, supplied) ==
    IF supplied = None THEN ~ Truthy(stored) ELSE stored = supplied

\* C8: once record_discovered_service has been called with a name,
\* discovered_services holds exactly one row for it; its namespace and its
\* deployments are the first non-empty values supplied for the name, its
\* description and its team the last non-empty values supplied.
C8_OneServiceRowMerged ==
    \A n \in ServiceNames :
        serviceCalls[n].called =>
            /\ Cardinality(ServicesNamed(n)) = 1
            /\ \A i \in ServicesNamed(n) :
                  LET row == discovered_services[i]
                      h == serviceCalls[n]
                  IN  /\ HoldsSupplied(row.namespace, h.namespace)
                      /\ HoldsSupplied(row.deployments, h.deployments)
                      /\ HoldsSupplied(row.description, h.description)
                      /\ HoldsSupplied(row.team, h.team)

\* C9: once record_discovered_dependency has been called on an ordered pair,
\* there is exactly one row for the pair and its confidence is the maximum
\* of the confidence values supplied so far for the pair (so it never
\* decreases from one call to the next).
C9_ConfidenceIsMaximum ==
    \A p \in DependencyPairs :
        dependencyCalls[p].calls > 0 =>
            /\ Cardinality(DependenciesOn(p[1], p[2])) = 1
            /\ \A i \in DependenciesOn(p[1], p[2]) :
                  discovered_dependencies[i].confidence =
                      dependencyCalls[p].confidence

RECURSIVE JoinEvidence(_)
\* "; ".join(strings)
JoinEvidence(strings) ==
    IF strings = << >> THEN ""
    ELSE IF Len(strings) = 1 THEN strings[1]
    ELSE JoinEvidence(SubSeq(strings, 1, Len(strings) - 1))
            \o "; " \o strings[Len(strings)]

\* C10: the evidence stored for an ordered pair is the non-empty evidence
\* strings supplied for the pair, in call order, joined with "; ".
C10_EvidenceAccumulates ==
    \A p \in DependencyPairs :
        dependencyCalls[p].calls > 0 =>
            \E i \in DependenciesOn(p[1], p[2]) :
                IF dependencyCalls[p].evidence = << >>
                THEN ~ Truthy(discovered_dependencies[i].evidence)
                ELSE discovered_dependencies[i].evidence =
                        JoinEvidence(dependencyCalls[p].evidence)

(***************************************************************************)
(* Properties of the pattern recorder.                                     *)
(***************************************************************************)
\* C11: after any sequence of record_pattern calls, known_patterns holds at
\* most one row per pattern text; the row of a pattern has as its
\* occurrence_count the number of record_pattern calls made with the
\* pattern, and the cause and solution of the last such call.
C11_OnePatternRowCounted ==
    \A p \in PatternArgs :
        /\ Cardinality(PatternsWith(p)) <= 1
        /\ \A i \in PatternsWith(p) :
              /\ known_patterns[i].occurrence_count = patternCalls[p].calls
              /\ known_patterns[i].cause = patternCalls[p].cause
              /\ known_patterns[i].solution = patternCalls[p].solution

\* C12: after any sequence of suggest_known_issue calls with one pattern
\* there is exactly one suggested_known_issues row for the pattern; its
\* occurrences is the number of those calls, its investigation_ids holds
\* each investigation id supplied exactly once, and its cause, solution and
\* services are those of the last call.
C12_OneIssueRowCounted ==
    \A p \in PatternArgs :
        issueCalls[p].calls > 0 =>
            /\ Cardinality(IssuesWith(p)) = 1
            /\ \A i \in IssuesWith(p) :
                  LET row == suggested_known_issues[i]
                      h == issueCalls[p]
                  IN  /\ row.occurrences = h.calls
                      /\ Elements(row.investigation_ids) = h.investigation_ids
                      /\ Len(row.investigation_ids) =
                            Cardinality(h.investigation_ids)
                      /\ row.cause = h.cause
                      /\ row.solution = h.solution
                      /\ row.services = h.services

(***************************************************************************)
(* Properties of the catalog sync.                                         *)
(***************************************************************************)
\* the rows of one discovery table over a step: a new row has synced_at
\* null, and the synced_at of a stored row changes only in a
\* mark_discoveries_synced call whose id list names the row
SyncedOnlyByMark(old, new, list) ==
    \A i \in DOMAIN new :
        IF i \notin DOMAIN old THEN new[i].synced_at = NoTime
        ELSE new[i].synced_at # old[i].synced_at =>
                /\ ret'.op = "mark_discoveries_synced"
                /\ i \in Elements(Loaded(ret'.args[list]))

\* C13: in the three discovery tables synced_at is null from the insertion
\* of a row until a mark_discoveries_synced call names its id: no
\* record_discovered_service, record_discovered_dependency or
\* suggest_known_issue call, inserting or updating, sets or changes it.
C13_SyncedOnlyWhenMarked ==
    [][/\ SyncedOnlyByMark(discovered_services, discovered_services',
                           "service_ids")
       /\ SyncedOnlyByMark(discovered_dependencies, discovered_dependencies',
                           "dependency_ids")
       /\ SyncedOnlyByMark(suggested_known_issues, suggested_known_issues',
                           "known_issue_ids")]_vars

\* record_discovered_dependency has updated, on conflict, a row that was
\* marked synced before, and the row is still synced; the other two tables
\* hold synced rows that were updated on conflict as well
C13_Witness ==
    /\ ret.op = "record_discovered_dependency"
    /\ ret.kind = "ok"
    /\ ret.status = "updated"
    /\ \E i \in DOMAIN discovered_dependencies :
          discovered_dependencies[i].synced_at # NoTime
    /\ \E i \in DOMAIN discovered_services :
          /\ discovered_services[i].synced_at # NoTime
          /\ serviceCalls[discovered_services[i].name].called
    /\ \E i \in DOMAIN suggested_known_issues :
          /\ suggested_known_issues[i].synced_at # NoTime
          /\ suggested_known_issues[i].occurrences = 2

\* C14: when get_pending_discoveries returns a non-empty result and
\* mark_discoveries_synced is then called with all the service, dependency
\* and known-issue ids of the result, each in its own list, the next
\* get_pending_discoveries, with no recording call in between, returns
\* total_pending = 0.
C14_NothingPendingAfterSync ==
    (ret.op = "get_pending_discoveries" /\ ret.after_sync) =>
        /\ ret.total_pending = 0
        /\ ret.services.count = 0
        /\ ret.dependencies.count = 0
        /\ ret.known_issues.count = 0

\* get_pending_discoveries has answered after such a sync while all three
\* tables hold rows, two of them in discovered_services
C14_Witness ==
    /\ ret.op = "get_pending_discoveries"
    /\ ret.after_sync
    /\ Cardinality(DOMAIN discovered_services) = 2
    /\ discovered_dependencies # << >>
    /\ suggested_known_issues # << >>

\* the rows of a table that a mark_discoveries_synced call names
RowsNamed(table, list) == Elements(Loaded(list)) \cap DOMAIN table

\* C15: mark_discoveries_synced returns, for each of the three tables, the
\* number of rows of the table whose synced_at the call set, and a total
\* equal to the sum of the three, for every id list: with ids of no row,
\* with repeated ids, with ids of rows already synced.
C15_CountsAreRowsUpdated ==
    (ret.op = "mark_discoveries_synced" /\ ret.kind = "ok") =>
        /\ ret.marked_synced.services =
              Cardinality(RowsNamed(discovered_services,
                                    ret.args.service_ids))
        /\ ret.marked_synced.dependencies =
              Cardinality(RowsNamed(discovered_dependencies,
                                    ret.args.dependency_ids))
        /\ ret.marked_synced.known_issues =
              Cardinality(RowsNamed(suggested_known_issues,
                                    ret.args.known_issue_ids))
        /\ ret.total = ret.marked_synced.services
                          + ret.marked_synced.dependencies
                          + ret.marked_synced.known_issues

\* C16: every store operation returns a payload for every argument value in
\* every reachable state of the store: a failure is reported in the payload
\* and no operation raises an exception to its caller.
C16_NoOperationRaises == ret.kind # "raise"

(***************************************************************************)
(* Properties of the history search.                                       *)
(***************************************************************************)
\* the instant days_ago days before a search_investigations call
CutoffInstant(call) ==
    call.called_at - call.args.days_ago * SecondsPerDay * MicrosPerSecond

\* the instant at which an investigation was started
StartedAt(i) == ParseIso(investigations[i].started_at)

\* C17: search_investigations with days_ago = d returns an investigation
\* only if it started not earlier than the call time minus d days: one
\* started exactly d days before the call is included (when it passes the
\* other filters and the limit leaves room), one started earlier is not.
C17_OnlyWithinDaysAgo ==
    (ret.op = "search_investigations" /\ ret.kind = "ok") =>
        /\ \A k \in 1..Len(ret.investigations) :
              StartedAt(ret.investigations[k]) >= CutoffInstant(ret)
        /\ \A i \in DOMAIN investigations :
              (/\ StartedAt(i) = CutoffInstant(ret)
               /\ SearchWhereAnyTime(investigations[i], ret.args.query,
                                     ret.args.service, ret.args.days_ago)
               /\ Len(ret.investigations) < ret.args.limit)
              => i \in Elements(ret.investigations)

\* query is a case-insensitive substring of a column
ColumnContains(column, query) ==
    /\ column # None
    /\ Occurs(Lower(Chars(query)), Lower(Chars(column)))

\* an investigation satisfies the filters supplied to a search
SatisfiesFilters(row, call) ==
    /\ Truthy(call.args.service) => row.service = call.args.service
    /\ Truthy(call.args.query) =>
          \/ ColumnContains(row.summary, call.args.query)
          \/ ColumnContains(row.root_cause, call.args.query)
          \/ ColumnContains(row.resolution, call.args.query)
          \/ ColumnContains(row.tags, call.args.query)

\* C18: search_investigations returns at most `limit` investigations, most
\* recently started first; each of them satisfies every supplied filter
\* (its service is the given service; the query is a case-insensitive
\* substring of its summary, root_cause, resolution or tags), and no
\* investigation that satisfies the filters and started after a returned
\* one is left out.
C18_SearchFiltersOrdersLimits ==
    (ret.op = "search_investigations" /\ ret.kind = "ok") =>
        LET found == ret.investigations
        IN  /\ Len(found) <= ret.args.limit
            /\ \A i, j \in 1..Len(found) :
                  i < j => StartedAt(found[i]) >= StartedAt(found[j])
            /\ \A k \in 1..Len(found) :
                  SatisfiesFilters(investigations[found[k]], ret)
            /\ \A i \in DOMAIN investigations :
                  (/\ SatisfiesFilters(investigations[i], ret)
                   /\ StartedAt(i) >= CutoffInstant(ret)
                   /\ \E k \in 1..Len(found) :
                         StartedAt(i) > StartedAt(found[k]))
                  => i \in Elements(found)

\* C19: find_similar_investigations never returns an investigation in
\* progress and, when a service is given, never one of another service,
\* whatever the error_message, the limit and the stored investigations.
C19_OnlyCompletedOfService ==
    (ret.op = "find_similar_investigations" /\ ret.kind = "ok") =>
        \A k \in 1..Len(ret.similar_investigations) :
            LET row == investigations[ret.similar_investigations[k]]
            IN  /\ row.status # "in_progress"
                /\ Truthy(ret.args.service) =>
                      row.service = ret.args.service

\* find_similar_investigations, given a service and an error message, has
\* returned an investigation while another investigation of the same
\* service, which the message matches as well, is in progress
C19_Witness ==
    /\ ret.op = "find_similar_investigations"
    /\ ret.args.service = "payment-api"
    /\ ret.args.error_message = "DB"
    /\ ret.similar_count = 1
    /\ \E i \in DOMAIN investigations :
          /\ investigations[i].status = "in_progress"
          /\ investigations[i].service = "payment-api"

\* a tag overlaps the message: a non-empty piece of the comma-separated tags
\* occurs in the message or the message in it, whatever the case
TagOverlaps(tags, error_message) ==
    \E k \in 1..Len(Split(Chars(tags))) :
        LET piece == Lower(Split(Chars(tags))[k])
            message == Lower(Chars(error_message))
        IN  /\ piece # << >>
            /\ Occurs(piece, message) \/ Occurs(message, piece)

\* 10 if the message occurs in root_cause, plus 5 if it occurs in summary,
\* plus 3 if a tag overlaps the message
StatedScore(row, error_message) ==
    (IF ColumnContains(row.root_cause, error_message) THEN 10 ELSE 0)
    + (IF ColumnContains(row.summary, error_message) THEN 5 ELSE 0)
    + (IF row.tags # None /\ TagOverlaps(row.tags, error_message)
       THEN 3 ELSE 0)

\* C20: with an error_message, find_similar_investigations scores each
\* candidate (10 for root_cause, 5 for summary, 3 for a tag) and returns
\* the first `limit` candidates in descending order of score: as many as
\* the limit and the number of candidates allow, in descending order, none
\* of them scoring less than a candidate that is left out.
C20_TopScoresReturned ==
    (ret.op = "find_similar_investigations" /\ ret.kind = "ok"
        /\ Truthy(ret.args.error_message)) =>
        LET similar == ret.similar_investigations
            candidates == {i \in DOMAIN investigations :
                              CandidateWhere(investigations[i],
                                             ret.args.service)}
            score == [i \in candidates |->
                         StatedScore(investigations[i],
                                     ret.args.error_message)]
        IN  /\ Elements(similar) \subseteq candidates
            /\ Len(similar) = IF ret.args.limit < Cardinality(candidates)
                              THEN ret.args.limit
                              ELSE Cardinality(candidates)
            /\ \A i, j \in 1..Len(similar) :
                  i < j => /\ similar[i] # similar[j]
                           /\ score[similar[i]] >= score[similar[j]]
            /\ \A c \in candidates \ Elements(similar) :
                  \A k \in 1..Len(similar) : score[c] <= score[similar[k]]

(***************************************************************************)
(* Properties of the pending listing.                                      *)
(***************************************************************************)
\* the ids of the rows of a discovery table whose synced_at is null
Unsynced(table) == {i \in DOMAIN table : table[i].synced_at = NoTime}

\* C21: get_pending_discoveries lists a discovery row exactly when its
\* synced_at is null; the count of each group is the number of items it
\* lists and total_pending is the sum of the three counts.
C21_PendingListsUnsynced ==
    ret.op = "get_pending_discoveries" =>
        /\ ret.services.ids = Unsynced(discovered_services)
        /\ ret.dependencies.ids = Unsynced(discovered_dependencies)
        /\ ret.known_issues.ids = Unsynced(suggested_known_issues)
        /\ ret.services.count = Cardinality(ret.services.ids)
        /\ ret.dependencies.count = Cardinality(ret.dependencies.ids)
        /\ ret.known_issues.count = Cardinality(ret.known_issues.ids)
        /\ ret.total_pending = ret.services.count + ret.dependencies.count
                                  + ret.known_issues.count

\* get_pending_discoveries has answered while discovered_services holds a
\* synced row and a pending one and the other two tables hold a pending row
C21_Witness ==
    /\ ret.op = "get_pending_discoveries"
    /\ ret.total_pending = 3
    /\ ret.services.count = 1
    /\ \E i \in DOMAIN discovered_services :
          discovered_services[i].synced_at # NoTime

(***************************************************************************)
(* Properties of the stored investigations and findings.                   *)
(***************************************************************************)
\* C22: no operation deletes or modifies a stored finding or deletes an
\* investigation: a finding keeps its id, investigation_id, timestamp,
\* type, title and data over every step, and its investigation_id names a
\* stored investigation.
C22_FindingsImmutable ==
    [][/\ \A f \in DOMAIN findings :
              f \in DOMAIN findings' /\ findings'[f] = findings[f]
       /\ DOMAIN investigations \subseteq DOMAIN investigations'
       /\ \A f \in DOMAIN findings' :
              findings'[f].investigation_id \in DOMAIN investigations']_vars

\* two findings are stored, a later add_finding call has raised on the id
\* of one of them and the investigation of a finding was completed since
C22_Witness ==
    /\ DOMAIN findings = FindingIds
    /\ ret.op = "add_finding"
    /\ ret.kind = "raise"
    /\ \E f \in DOMAIN findings :
          /\ investigations[findings[f].investigation_id].status = "completed"
          /\ TextLess(findings[f].timestamp,
                      investigations[findings[f].investigation_id].ended_at)

\* C23: every investigation has status in_progress or completed, and its
\* ended_at, root_cause and resolution are null exactly when the status is
\* in_progress.
C23_StatusAndCompletionFields ==
    \A i \in DOMAIN investigations :
        LET row == investigations[i]
        IN  /\ row.status \in {"in_progress", "completed"}
            /\ row.ended_at = NoTime <=> row.status = "in_progress"
            /\ row.root_cause = None <=> row.status = "in_progress"
            /\ row.resolution = None <=> row.status = "in_progress"

\* one investigation is in progress while another was completed twice
C23_Witness ==
    /\ ret.op = "complete_investigation"
    /\ ret.kind = "ok"
    /\ investigations[ret.args.investigation_id].root_cause = "rc-2"
    /\ \E i \in DOMAIN investigations :
          investigations[i].status = "in_progress"
    /\ \E i \in DOMAIN investigations :
          /\ investigations[i].status = "completed"
          /\ investigations[i].ended_at # IsoFormat(now)

\* C27: add_finding succeeds on every stored investigation, in progress or
\* completed: the call inserts exactly one finding and leaves every
\* investigation row as it was.
C27_AddFindingOnAnyStatus ==
    [][(/\ ret'.op = "add_finding"
        /\ now' = now
        /\ ret'.args.investigation_id \in DOMAIN investigations) =>
            /\ ret'.kind = "ok"
            /\ DOMAIN findings \subseteq DOMAIN findings'
            /\ Cardinality(DOMAIN findings') =
                  Cardinality(DOMAIN findings) + 1
            /\ investigations' = investigations]_vars

(***************************************************************************)
(* Properties of a failed catalog sync.                                    *)
(***************************************************************************)
\* C28: when mark_discoveries_synced raises while it deserializes an id
\* list, the call changes no synced_at: the rows named in a list it
\* processed before are as pending as they were.
C28_RaiseChangesNoSyncedAt ==
    [][(ret'.op = "mark_discoveries_synced" /\ ret'.kind = "raise") =>
          /\ discovered_services' = discovered_services
          /\ discovered_dependencies' = discovered_dependencies
          /\ suggested_known_issues' = suggested_known_issues]_vars

\* the call raised on its third list after two lists that name a stored
\* service and a stored dependency, and both rows are pending
C28_Witness ==
    /\ ret.op = "mark_discoveries_synced"
    /\ ret.kind = "raise"
    /\ ret.args.known_issue_ids = Malformed
    /\ \E i \in Elements(Loaded(ret.args.service_ids)) :
          /\ i \in DOMAIN discovered_services
          /\ discovered_services[i].synced_at = NoTime
    /\ \E i \in Elements(Loaded(ret.args.dependency_ids)) :
          /\ i \in DOMAIN discovered_dependencies
          /\ discovered_dependencies[i].synced_at = NoTime

(***************************************************************************)
(* Properties of the stored confidence.                                    *)
(***************************************************************************)
\* C25: the stored confidence of every discovered dependency lies between
\* 0 and 1 (0 and 10 tenths), whatever confidence values were passed.
C25_ConfidenceInUnitInterval ==
    \A i \in DOMAIN discovered_dependencies :
        /\ discovered_dependencies[i].confidence >= 0
        /\ discovered_dependencies[i].confidence <= 10

(***************************************************************************)
(* The four upserts next to each other.                                    *)
(***************************************************************************)
UpsertCallsMade == PatternCallsMade + DependencyCallsMade + IssueCallsMade

UpsertPatternStep ==
    /\ UpsertCallsMade < MaxUpsertCalls
    /\ \E id \in PatternIds, pattern \in PatternArgs :
          RecordPattern(id, pattern, "cause-1", "fix-1", None)

\* the (id, name) of the record_discovered_service calls: two names, and
\* an id that repeats under the second name
UpsertServiceArgs ==
    {<< "svc-1", "svc-a" >>, << "svc-1", "svc-b" >>, << "svc-2", "svc-b" >>}

UpsertServiceStep ==
    /\ UpsertCallsMade < MaxUpsertCalls
    /\ \E a \in UpsertServiceArgs :
          RecordDiscoveredService(a[1], a[2], "ns1", None, "d", None,
                                  "list_pods")

UpsertDependencyStep ==
    /\ UpsertCallsMade < MaxUpsertCalls
    /\ RecordDiscoveredDependency("dep-1", "a", "b", "ev-1", 5)

UpsertIssueStep ==
    /\ UpsertCallsMade < MaxUpsertCalls
    /\ SuggestKnownIssue("iss-1", "oom-1", "cause-1", "fix-1", None, "inv-1")

NextUpserts ==
    \/ Tick
    \/ UpsertPatternStep
    \/ UpsertServiceStep
    \/ UpsertDependencyStep
    \/ UpsertIssueStep

SpecUpserts == Init /\ [][NextUpserts]_vars

(***************************************************************************)
(* Properties of the upserts as writers of their tables.                   *)
(***************************************************************************)
UpsertOps ==
    {"record_pattern", "record_discovered_service",
     "record_discovered_dependency", "suggest_known_issue"}

\* of the four tables p, s, d and i, the one the operation writes to
OwnTable(op, p, s, d, i) ==
    CASE op = "record_pattern" -> p
      [] op = "record_discovered_service" -> s
      [] op = "record_discovered_dependency" -> d
      [] op = "suggest_known_issue" -> i

\* the natural key of a row of the table of the operation
NaturalKey(op, row) ==
    CASE op = "record_pattern" -> row.pattern
      [] op = "record_discovered_service" -> row.name
      [] op = "record_discovered_dependency" ->
            << row.from_service, row.to_service >>
      [] op = "suggest_known_issue" -> row.pattern

\* the natural key a call was given
GivenKey(op, args) ==
    CASE op = "record_pattern" -> args.pattern
      [] op = "record_discovered_service" -> args.name
      [] op = "record_discovered_dependency" ->
            << args.from_service, args.to_service >>
      [] op = "suggest_known_issue" -> args.pattern

\* what a row keeps for good next to its id
Origin(op, row) ==
    CASE op = "record_pattern" -> << row.created_at >>
      [] op = "record_discovered_service" ->
            << row.discovered_at, row.source_tool >>
      [] op = "record_discovered_dependency" -> << row.discovered_at >>
      [] op = "suggest_known_issue" -> << row.discovered_at >>

\* C29: an upsert changes at most the one row of its own table that has
\* the natural key it was given: every other row and every other table is
\* left as it was, and a row that had the key keeps its id and its
\* created_at or discovered_at (and a service its source_tool).
C29_UpsertTouchesOneRow ==
    [][ret'.op \in UpsertOps =>
          LET op == ret'.op
              key == GivenKey(op, ret'.args)
              old == OwnTable(op, known_patterns, discovered_services,
                              discovered_dependencies, suggested_known_issues)
              new == OwnTable(op, known_patterns', discovered_services',
                              discovered_dependencies',
                              suggested_known_issues')
              had == {i \in DOMAIN old : NaturalKey(op, old[i]) = key}
              touched == {i \in DOMAIN new :
                            i \notin DOMAIN old \/ new[i] # old[i]}
          IN  /\ DOMAIN old \subseteq DOMAIN new
              /\ Cardinality(touched) <= 1
              /\ \A i \in touched : NaturalKey(op, new[i]) = key
              /\ \A i \in had : /\ NaturalKey(op, new[i]) = key
                                 /\ Origin(op, new[i]) = Origin(op, old[i])
              /\ had # {} => DOMAIN new = DOMAIN old
              /\ \A o \in UpsertOps \ {op} :
                    OwnTable(o, known_patterns', discovered_services',
                             discovered_dependencies',
                             suggested_known_issues')
                      = OwnTable(o, known_patterns, discovered_services,
                                 discovered_dependencies,
                                 suggested_known_issues)
              /\ investigations' = investigations
              /\ findings' = findings]_vars

\* record_pattern has updated, on a later tick, the row of a pattern while
\* known_patterns holds a row of another pattern and discovered_services a
\* row for each of two names
C29_Witness ==
    /\ ret.op = "record_pattern"
    /\ ret.kind = "ok"
    /\ ret.seen = 2
    /\ Cardinality(DOMAIN known_patterns) = 2
    /\ known_patterns[ret.pattern_id].created_at
          # known_patterns[ret.pattern_id].last_seen
    /\ Cardinality(DOMAIN discovered_services) = 2

(***************************************************************************)
(* cleanup_stuck_runs, the script of the config service                    *)
(* (config_service/scripts/cleanup_stuck_agent_runs.py).  The clock counts *)
(* hours here; started_at is an hour on the clock and completed_at is      *)
(* NoTime or the one-element sequence of an hour.                          *)
(***************************************************************************)
\* the ids of the agent runs in the table when the script is started
RunIds == {"run-1", "run-2"}
\* started_at of the runs: an hour before the clock starts, and its start
StartedAtArgs == {0 - 1, 0}
\* --timeout-hours
TimeoutHoursArgs == {0, 1}

\* a run as the agent runtime stores it: running, or ended an hour after
\* its start as completed or failed
AgentRun(status, started_at) ==
    [ status |-> status, started_at |-> started_at,
      completed_at |-> IF status = "running" THEN NoTime
                       ELSE << started_at + 1 >>,
      error_message |-> IF status = "failed" THEN "boom" ELSE None ]

AgentRunTables ==
    [RunIds -> {AgentRun(status, started_at) :
                   status \in {"running", "completed", "failed"},
                   started_at \in StartedAtArgs}]

InitCleanup ==
    /\ InitStore
    /\ agent_runs \in AgentRunTables

\* the select without .where(AgentRun.status == "running")
IsStuckAnyStatus(run, cutoff_time) == run.started_at < cutoff_time

\* .where(AgentRun.status == "running")
\* .where(AgentRun.started_at < cutoff_time)
IsStuck(run, cutoff_time) ==
    run.status = "running" /\ run.started_at < cutoff_time

\* the return value is kept as count
CleanupStuckRuns(timeout_hours, dry_run) ==
    LET args == [timeout_hours |-> timeout_hours, dry_run |-> dry_run]
        cutoff_time == now - timeout_hours
        stuck_runs == {i \in DOMAIN agent_runs :
                          IsStuck(agent_runs[i], cutoff_time)}
    IN  /\ ret' = [ op |-> "cleanup_stuck_runs", args |-> args,
                    kind |-> "ok", count |-> Cardinality(stuck_runs) ]
        /\ IF stuck_runs = {} \/ dry_run
           THEN UNCHANGED agent_runs
           ELSE agent_runs' =
                   [i \in DOMAIN agent_runs |->
                       IF i \in stuck_runs
                       THEN [agent_runs[i] EXCEPT
                                !.status = "failed",
                                !.completed_at = << now >>,
                                !.error_message = "Cleanup: Run was stuck in running state (process crash or timeout)"]
                       ELSE agent_runs[i]]
        /\ UNCHANGED << now, lifecycleVars, serviceVars, dependencyVars,
                        recorderVars, writerVars >>

CleanupStep ==
    \E timeout_hours \in TimeoutHoursArgs, dry_run \in BOOLEAN :
        CleanupStuckRuns(timeout_hours, dry_run)

NextCleanup ==
    \/ Tick
    \/ CleanupStep

SpecCleanup == InitCleanup /\ [][NextCleanup]_vars

(***************************************************************************)
(* Properties of the cleanup script.                                       *)
(***************************************************************************)
\* the run, as the call found it, is running and started before the call
\* time minus timeout_hours
StartedBeforeCutoff(run, call) ==
    run.status = "running" /\ run.started_at < now - call.timeout_hours

\* C26: cleanup_stuck_runs changes a run only if dry_run is false and the
\* run is running with started_at earlier than the call time minus
\* timeout_hours; each such run becomes failed and every other run is left
\* as it was; with dry_run no run changes and the same count is returned.
C26_CleanupChangesOnlyStuckRuns ==
    [][(ret'.op = "cleanup_stuck_runs" /\ now' = now) =>
          LET call == ret'.args
              stuck == {i \in DOMAIN agent_runs :
                           StartedBeforeCutoff(agent_runs[i], call)}
          IN  /\ DOMAIN agent_runs' = DOMAIN agent_runs
              /\ \A i \in DOMAIN agent_runs :
                    IF i \in stuck /\ ~ call.dry_run
                    THEN agent_runs'[i].status = "failed"
                    ELSE agent_runs'[i] = agent_runs[i]
              /\ ret'.count = Cardinality(stuck)]_vars

\* a call without dry_run has marked one run failed and left a run alone
\* that is running still, having started at the cutoff
C26_Witness ==
    /\ ret.op = "cleanup_stuck_runs"
    /\ ~ ret.args.dry_run
    /\ ret.count = 1
    /\ \E i \in DOMAIN agent_runs :
          /\ agent_runs[i].status = "failed"
          /\ agent_runs[i].completed_at = << now >>
          /\ agent_runs[i].error_message # "boom"
    /\ \E i \in DOMAIN agent_runs :
          /\ agent_runs[i].status = "running"
          /\ agent_runs[i].started_at = now - ret.args.timeout_hours

(***************************************************************************)
(* Two processes calling the upserts at the same time, a statement at a    *)
(* time.  Every handler opens its own connection (sqlite3.connect with the *)
(* default isolation level and the default busy timeout): its SELECT reads *)
(* what is committed and holds no lock afterwards, its INSERT or UPDATE    *)
(* opens a transaction and takes the write lock of the file, and           *)
(* conn.commit() publishes the write and gives the lock back.              *)
(***************************************************************************)
\* the calls of the writers, as (table, natural key, value of
\* str(uuid.uuid4())[:8]): per table a key with two ids and a second key
\* with the second id
WriterCallArgs ==
    {<< "known_patterns", "oom-1", "pat-1" >>,
     << "known_patterns", "oom-1", "pat-2" >>,
     << "known_patterns", "oom-2", "pat-2" >>,
     << "discovered_services", "svc-a", "svc-1" >>,
     << "discovered_services", "svc-a", "svc-2" >>,
     << "discovered_services", "svc-b", "svc-2" >>,
     << "discovered_dependencies", << "a", "b" >>, "dep-1" >>,
     << "discovered_dependencies", << "a", "b" >>, "dep-2" >>,
     << "discovered_dependencies", << "b", "a" >>, "dep-2" >>,
     << "suggested_known_issues", "oom-1", "iss-1" >>,
     << "suggested_known_issues", "oom-1", "iss-2" >>,
     << "suggested_known_issues", "oom-2", "iss-2" >>}

\* the committed rows of a table
Stored(table) ==
    CASE table = "known_patterns" -> known_patterns
      [] table = "discovered_services" -> discovered_services
      [] table = "discovered_dependencies" -> discovered_dependencies
      [] table = "suggested_known_issues" -> suggested_known_issues

\* the columns of the WHERE clause of the SELECT of the handler
KeyOf(table, row) ==
    CASE table = "known_patterns" -> row.pattern
      [] table = "discovered_services" -> row.name
      [] table = "discovered_dependencies" ->
            << row.from_service, row.to_service >>
      [] table = "suggested_known_issues" -> row.pattern

\* no table declares its natural key UNIQUE
UniqueKeyedNone(table) == FALSE

\* every table declares its natural key UNIQUE
UniqueKeyedAll(table) == TRUE

\* name TEXT NOT NULL UNIQUE, UNIQUE(from_service, to_service) and
\* pattern TEXT NOT NULL UNIQUE of suggested_known_issues; the pattern of
\* known_patterns is TEXT NOT NULL only
UniqueKeyed(table) ==
    table \in {"discovered_services", "discovered_dependencies",
               "suggested_known_issues"}

\* the row of the INSERT of the handler, called with cause-1 and fix-1
\* (record_pattern, suggest_known_issue with investigation inv-1), with
\* namespace ns1 and description d from list_pods
\* (record_discovered_service), with the default confidence and no
\* evidence (record_discovered_dependency)
InsertedRow(table, key, at) ==
    CASE table = "known_patterns" ->
            [ pattern |-> key, cause |-> "cause-1", solution |-> "fix-1",
              services |-> None, occurrence_count |-> 1, last_seen |-> at,
              created_at |-> at ]
      [] table = "discovered_services" ->
            [ name |-> key, namespace |-> "ns1", deployments |-> None,
              description |-> "d", team |-> None, discovered_at |-> at,
              source_tool |-> "list_pods", synced_at |-> NoTime ]
      [] table = "discovered_dependencies" ->
            [ from_service |-> key[1], to_service |-> key[2],
              evidence |-> None, confidence |-> 5, discovered_at |-> at,
              synced_at |-> NoTime ]
      [] table = "suggested_known_issues" ->
            [ pattern |-> key, cause |-> "cause-1", solution |-> "fix-1",
              services |-> None, occurrences |-> 1,
              investigation_ids |-> << "inv-1" >>, discovered_at |-> at,
              synced_at |-> NoTime ]

\* the row after the UPDATE of the handler, called with the same arguments:
\* new_confidence, new_evidence, occurrences and inv_ids are computed from
\* the row the SELECT fetched, occurrence_count from the row as it is
UpdatedRow(table, row, fetched, at) ==
    CASE table = "known_patterns" ->
            RepeatedPattern(row, at, "cause-1", "fix-1")
      [] table = "discovered_services" ->
            MergedService(row, fetched, "ns1", None, "d", None)
      [] table = "discovered_dependencies" ->
            [row EXCEPT !.confidence = NewConfidence(fetched.confidence, 5),
                        !.evidence = NewEvidence(fetched.evidence, None)]
      [] table = "suggested_known_issues" ->
            [row EXCEPT !.occurrences = fetched.occurrences + 1,
                        !.investigation_ids =
                            AppendedId(fetched.investigation_ids, "inv-1"),
                        !.cause = "cause-1", !.solution = "fix-1",
                        !.services = None]

\* the WHERE clause of the UPDATE: name = ? for a service, id = ? with the
\* id the SELECT fetched for the other tables
UpdateMatches(table, i, row, key, fetched_id) ==
    IF table = "discovered_services" THEN row.name = key ELSE i = fetched_id

WriterCallsMade == writers["w1"].calls + writers["w2"].calls

\* the handler is called and runs its SELECT: cursor.fetchone() gives a row
\* that has the key, or None
WriterChecks(w, table, key, id) ==
    LET existing == {i \in DOMAIN Stored(table) :
                        KeyOf(table, Stored(table)[i]) = key}
        call == [ pc |-> "checked", calls |-> writers[w].calls + 1,
                  table |-> table, key |-> key, id |-> id ]
    IN  /\ writers[w].pc \in {"idle", "done"}
        /\ WriterCallsMade < MaxWriterCalls
        /\ IF existing = {}
           THEN writers' =
                   [writers EXCEPT ![w] = call @@ [existing |-> << >>]]
           ELSE \E e \in existing :
                   writers' =
                      [writers EXCEPT ![w] =
                          call @@ [existing |->
                                      << [ id |-> e,
                                           row |-> Stored(table)[e] ] >>]]
        /\ UNCHANGED << now, ret, lifecycleVars, serviceVars, dependencyVars,
                        recorderVars, agent_runs, lock >>

\* the handler runs its INSERT or UPDATE while no other connection holds
\* the write lock: the statement opens a transaction and takes the lock; an
\* INSERT that violates PRIMARY KEY or UNIQUE raises sqlite3.IntegrityError
\* out of the handler, any other write stays uncommitted
WriterWrites(w) ==
    LET call == writers[w]
        table == Stored(call.table)
    IN  /\ call.pc = "checked"
        /\ lock = None
        /\ IF /\ call.existing = << >>
              /\ \/ PrimaryKeyViolated(table, call.id)
                 \/ /\ UniqueKeyed(call.table)
                    /\ \E i \in DOMAIN table :
                          KeyOf(call.table, table[i]) = call.key
           THEN writers' =
                   [writers EXCEPT ![w] =
                       [call EXCEPT !.pc = "raised"]
                           @@ [outcome |-> "IntegrityError"]]
           ELSE writers' = [writers EXCEPT ![w].pc = "written"]
        /\ lock' = w
        /\ UNCHANGED << now, ret, lifecycleVars, serviceVars, dependencyVars,
                        recorderVars, agent_runs >>

\* the handler runs its INSERT or UPDATE while another connection holds the
\* write lock and keeps it for the busy timeout: sqlite3.OperationalError
\* (database is locked)
WriterLockedOut(w) ==
    /\ writers[w].pc = "checked"
    /\ lock \notin {None, w}
    /\ writers' =
          [writers EXCEPT ![w] =
              [@ EXCEPT !.pc = "done"] @@ [outcome |-> "OperationalError"]]
    /\ UNCHANGED << now, ret, lifecycleVars, serviceVars, dependencyVars,
                    recorderVars, agent_runs, lock >>

\* the connection of a handler that raised is never closed by the handler:
\* it is closed, and its open transaction rolled back, when the connection
\* object is collected
WriterDropsConnection(w) ==
    /\ writers[w].pc = "raised"
    /\ lock = w
    /\ writers' = [writers EXCEPT ![w].pc = "done"]
    /\ lock' = None
    /\ UNCHANGED << now, ret, lifecycleVars, serviceVars, dependencyVars,
                    recorderVars, agent_runs >>

\* the rows of the table of the call once its write is committed
Written(call, table) ==
    IF call.existing = << >>
    THEN (call.id :> InsertedRow(call.table, call.key, IsoFormat(now)))
            @@ table
    ELSE [i \in DOMAIN table |->
             IF UpdateMatches(call.table, i, table[i], call.key,
                              call.existing[1].id)
             THEN UpdatedRow(call.table, table[i], call.existing[1].row,
                             IsoFormat(now))
             ELSE table[i]]

\* conn.commit(), and the handler returns
WriterCommits(w) ==
    LET call == writers[w]
    IN  /\ call.pc = "written"
        /\ lock = w
        /\ known_patterns' =
              IF call.table = "known_patterns"
              THEN Written(call, known_patterns) ELSE known_patterns
        /\ discovered_services' =
              IF call.table = "discovered_services"
              THEN Written(call, discovered_services)
              ELSE discovered_services
        /\ discovered_dependencies' =
              IF call.table = "discovered_dependencies"
              THEN Written(call, discovered_dependencies)
              ELSE discovered_dependencies
        /\ suggested_known_issues' =
              IF call.table = "suggested_known_issues"
              THEN Written(call, suggested_known_issues)
              ELSE suggested_known_issues
        /\ writers' =
              [writers EXCEPT ![w] =
                  [call EXCEPT !.pc = "done"]
                      @@ [outcome |-> IF call.existing = << >>
                                      THEN "recorded" ELSE "updated"]]
        /\ lock' = None
        /\ UNCHANGED << now, ret, lifecycleVars, serviceCalls,
                        dependencyCalls, patternCalls, issueCalls,
                        agent_runs >>

WriterCheckStep ==
    \E w \in WriterIds, a \in WriterCallArgs : WriterChecks(w, a[1], a[2], a[3])

WriterWriteStep == \E w \in WriterIds : WriterWrites(w)

WriterLockedOutStep == \E w \in WriterIds : WriterLockedOut(w)

WriterCommitStep == \E w \in WriterIds : WriterCommits(w)

WriterDropStep == \E w \in WriterIds : WriterDropsConnection(w)

NextWriters ==
    \/ WriterCheckStep
    \/ WriterWriteStep
    \/ WriterLockedOutStep
    \/ WriterCommitStep
    \/ WriterDropStep

SpecWriters == Init /\ [][NextWriters]_vars

(***************************************************************************)
(* Properties of the upserts under two writers.                            *)
(***************************************************************************)
\* both writers have returned from calls on the table with one natural key
\* whose SELECTs both found no row: the second SELECT ran before the first
\* writer committed
BothPassedCheck(table) ==
    /\ writers["w1"].pc = "done"
    /\ writers["w2"].pc = "done"
    /\ writers["w1"].table = table
    /\ writers["w2"].table = table
    /\ writers["w1"].key = writers["w2"].key
    /\ writers["w1"].existing = << >>
    /\ writers["w2"].existing = << >>

\* C24: the upsert of record_pattern is a check followed by a write and is
\* not atomic: the INSERT is refused for a repeated id only, never for a
\* repeated pattern, so when two interleaved calls for the same new
\* pattern both pass the existence check and both insert, known_patterns
\* holds two rows with that pattern.
C24_PatternRaceDuplicates ==
    /\ \A w \in WriterIds :
          (/\ writers[w].pc = "done"
           /\ writers[w].table = "known_patterns"
           /\ writers[w].outcome = "IntegrityError") =>
              writers[w].id \in DOMAIN known_patterns
    /\ (/\ BothPassedCheck("known_patterns")
        /\ writers["w1"].outcome = "recorded"
        /\ writers["w2"].outcome = "recorded") =>
           Cardinality(PatternsWith(writers["w1"].key)) = 2

\* two interleaved record_pattern calls for one new pattern have both
\* passed the check and inserted, and known_patterns holds two rows with
\* the pattern
C24_Witness ==
    /\ BothPassedCheck("known_patterns")
    /\ writers["w1"].outcome = "recorded"
    /\ writers["w2"].outcome = "recorded"
    /\ Cardinality(PatternsWith(writers["w1"].key)) = 2

\* no two rows of the table have the same natural key
KeysDistinct(table) ==
    \A i, j \in DOMAIN Stored(table) :
        i # j => KeyOf(table, Stored(table)[i]) # KeyOf(table, Stored(table)[j])

\* C30: with two writers interleaved statement by statement,
\* discovered_services, discovered_dependencies and suggested_known_issues
\* never hold two rows with the same natural key: when both writers pass
\* the existence check, the second INSERT fails on the uniqueness
\* constraint.
C30_UniqueKeysUnderRace ==
    \A table \in {"discovered_services", "discovered_dependencies",
                   "suggested_known_issues"} :
        /\ KeysDistinct(table)
        /\ BothPassedCheck(table) =>
              ~ (/\ writers["w1"].outcome = "recorded"
                 /\ writers["w2"].outcome = "recorded")

\* two interleaved record_discovered_service calls for one new name, with
\* two ids that no row has, have both passed the check: one has inserted
\* and the INSERT of the other has failed
C30_Witness ==
    /\ BothPassedCheck("discovered_services")
    /\ writers["w1"].id # writers["w2"].id
    /\ {writers["w1"].outcome, writers["w2"].outcome}
          = {"recorded", "IntegrityError"}
    /\ Cardinality(DOMAIN discovered_services) = 1

=============================================================================
